---- MODULE Spec2Model ----
(***************************************************************************)
(* Scheduling layer of the warehouse master (warehouse/warehouse.go):      *)
(* the router main loop, the per-identity workers with their global        *)
(* admission counter, the in-progress / last-exec / recovery registries    *)
(* and the two metadata tables (wh_staging_files, wh_uploads).             *)
(***************************************************************************)
EXTENDS Integers, Sequences, FiniteSets, TLC

(***************************************************************************)
(* Bounds of the model.                                                    *)
(***************************************************************************)
\* rows POST /v1/process may insert into wh_staging_files
MaxFiles == 2
\* how often the clock advances (by mainLoopSleep each time)
MaxTicks == 2
\* how often job.run may fail for one upload
MaxAttempts == 2
\* goroutines/channels initWorker may create
MaxWorkers == 4
\* batches the model lets wait in one worker channel
MaxQueue == 2
\* snapshots the backend config publishes when its feed changes
MaxSnapshots == 3

(***************************************************************************)
(* Configuration values read by loadConfig (warehouse.go:104-132).  The    *)
(* values are the ones of the modelled deployment, not the defaults.       *)
(***************************************************************************)
\* Warehouse.uploadFreqInS
uploadFreqInS == 120
\* Warehouse.mainLoopSleepInS, in seconds
mainLoopSleep == 60
\* Warehouse.minRetryAttempts
minRetryAttempts == 2
\* Warehouse.retryTimeWindowInMins, in seconds
retryTimeWindow == 120
\* capacity of a worker channel, make(chan []*UploadJobT, 100)
workerChanCap == 100

\* the two warehouse kinds of loadConfig's list that the modelled deployment
\* has destinations of
WarehouseDestinations == {"RS", "BQ"}
crashRecoverWarehouses == {"RS"}

(***************************************************************************)
(* The backend configuration of the modelled deployment: source S1 feeds   *)
(* destinations D1 (RS) and D2 (BQ), source S2 feeds D1.  D1 has a         *)
(* namespace configured, so both of its bindings share one worker.         *)
(***************************************************************************)
SourceIDs == {"S1", "S2"}
DestinationIDs == {"D1", "D2"}

DestinationDefinitionName(d) == IF d = "D1" THEN "RS" ELSE "BQ"

\* destination.Config["namespace"]; "" when not set
ConfigNamespace(d) == IF d = "D1" THEN "ns" ELSE ""

\* destination.Config["syncFrequency"], minutes as a string; "" when not set
ConfigSyncFrequency(d) == IF d = "D2" THEN "1" ELSE ""

\* backendconfig.SourcesT snapshots: the sources in order, each with its
\* destinations.  In the first two sources share destination D1; in the
\* second one source feeds a destination of each router.
SharedDestinationConfig ==
    << [ID |-> "S1", Destinations |-> <<"D1">>],
       [ID |-> "S2", Destinations |-> <<"D1">>] >>

TwoRouterConfig ==
    << [ID |-> "S1", Destinations |-> <<"D1", "D2">>] >>

\* one source with one warehouse destination, and the same source after the
\* destination has been removed from it
SingleBindingConfig ==
    << [ID |-> "S1", Destinations |-> <<"D1">>] >>

NoDestinationConfig ==
    << [ID |-> "S1", Destinations |-> << >>] >>

\* a feed that takes the destination away and gives it back, in turn
ToggleFeed ==
    [ i \in 1..MaxSnapshots |->
        IF i % 2 = 1 THEN SingleBindingConfig ELSE NoDestinationConfig ]

\* a feed that binds a second source to the destination of the first
GrowingFeed == << SingleBindingConfig, SharedDestinationConfig >>

\* upload states (the scheduler tells terminal from non-terminal only)
WaitingState == "waiting"
ExportingDataState == "exporting_data"
ExportingDataFailedState == "exporting_data_failed"
ExportedDataState == "exported_data"
AbortedState == "aborted"

Terminal(status) == status \in {ExportedDataState, AbortedState}

\* the zero time.Time of an upload that has no timings yet
NoTime == -1

VARIABLES
    config,            \* the backend-config snapshot published last
    feed,              \* the snapshots the backend config has yet to publish
    dstToWhRouter,     \* destTypes the supervisor has set up a router for
    now,               \* timeutil.Now().Unix()
    stagingFiles,      \* wh_staging_files: row id |-> [source, destination]
    uploads,           \* wh_uploads: row id |-> upload row
    inProgressMap,     \* keys of inProgressMap
    lastExecMap,       \* connection string |-> unix seconds, NoTime if absent
    inRecoveryMap,     \* keys of inRecoveryMap (destination ids)
    activeWorkerCount,
    isEnabled,         \* router |-> wh.isEnabled
    warehouses,        \* router |-> wh.warehouses
    workerChannelMap,  \* router |-> (worker identifier |-> channel)
    workers,           \* channel |-> its queue and the goroutine reading it
    mlWarehouses,      \* router |-> the main loop's local copy `warehouses`
    mlIdx,             \* router |-> index of the range loop, 0 = top of tick
    mlPc,              \* router |-> where in the iteration the main loop is
    sharedLoopVar,     \* TRUE: one loop variable per range loop (Go < 1.22)
    noOfWorkers,       \* Warehouse.noOfWorkers, as loadConfig read it
    stagingFilesBatchSize, \* Warehouse.stagingFilesBatchSize, likewise
    configSubscriberLock,  \* the router whose subscriber holds the process-wide
                           \* configSubscriberLock, "free" when none does
    subscriber,        \* router |-> its subscriber: the snapshots waiting in
                       \* its channel, the bindings of the snapshot it is
                       \* working on and how far it has got, 0 = at the receive
    blockedSend        \* router |-> the batch its main loop is blocked sending
                       \* with wh.workerChannelMapLock held, << >> if none

vars == << config, feed, dstToWhRouter, now, stagingFiles, uploads,
           inProgressMap, lastExecMap,
           inRecoveryMap, activeWorkerCount, isEnabled, warehouses,
           workerChannelMap, workers, mlWarehouses, mlIdx, mlPc, sharedLoopVar,
           noOfWorkers, stagingFilesBatchSize,
           configSubscriberLock, subscriber, blockedSend >>

\* what never changes after loadConfig and the build
build == << sharedLoopVar, noOfWorkers, stagingFilesBatchSize >>

\* the locks that are held across a blocking operation, with the threads
\* that hold them
locks == << configSubscriberLock, subscriber, blockedSend >>

Routers == WarehouseDestinations

\* fmt.Sprintf(`source:%s:destination:%s`, ...)
connectionString(warehouse) == << warehouse.Source, warehouse.Destination >>

\* fmt.Sprintf(`%s_%s`, warehouse.Destination.ID, warehouse.Namespace)
workerIdentifier(warehouse) == << warehouse.Destination, warehouse.Namespace >>

\* namespace from the destination config, else derived from the source
getNamespace(source, destination) ==
    IF ConfigNamespace(destination) # ""
    THEN ConfigNamespace(destination)
    ELSE source

Pairs == { << s, d >> : s \in SourceIDs, d \in DestinationIDs }

Min(a, b) == IF a < b THEN a ELSE b

(***************************************************************************)
(* Bindings (warehouseutils.WarehouseT) and the metadata queries.          *)
(***************************************************************************)
Warehouse(source, destination) ==
    [ Source |-> source, Destination |-> destination,
      Namespace |-> getNamespace(source, destination),
      Type |-> DestinationDefinitionName(destination) ]

\* the ids of a set of rows in ascending order (ORDER BY id ASC)
RECURSIVE Ascending(_)
Ascending(S) ==
    IF S = {} THEN << >>
    ELSE LET m == CHOOSE x \in S : \A y \in S : x <= y
         IN  << m >> \o Ascending(S \ {m})

\* rows of wh_uploads of the binding's (source, destination)
UploadsOf(warehouse) ==
    { i \in 1..Len(uploads) :
        /\ uploads[i].SourceID = warehouse.Source
        /\ uploads[i].DestinationID = warehouse.Destination }

\* ids, ascending, of the binding's uploads that are neither exported nor aborted
getPendingUploads(warehouse) ==
    Ascending({ i \in UploadsOf(warehouse) : ~Terminal(uploads[i].Status) })

\* the query without the filter on source_id and destination_id
lastStagingFileIDAnyPair(warehouse) ==
    LET done == { i \in 1..Len(uploads) : Terminal(uploads[i].Status) }
    IN  IF done = {} THEN 0
        ELSE uploads[CHOOSE i \in done : \A j \in done : j <= i].EndStagingFileID

\* end_staging_file_id of the terminal upload with the greatest id, 0 if none
lastStagingFileID(warehouse) ==
    LET done == { i \in UploadsOf(warehouse) : Terminal(uploads[i].Status) }
    IN  IF done = {} THEN 0
        ELSE uploads[CHOOSE i \in done : \A j \in done : j <= i].EndStagingFileID

\* ids, ascending, of the binding's staging files within [startID, endID]
getStagingFiles(warehouse, startID, endID) ==
    Ascending({ f \in 1..Len(stagingFiles) :
                  /\ f >= startID
                  /\ f <= endID
                  /\ stagingFiles[f].SourceID = warehouse.Source
                  /\ stagingFiles[f].DestinationID = warehouse.Destination })

\* ids, ascending, of the binding's staging files after the last terminal upload
getPendingStagingFiles(warehouse) ==
    Ascending({ f \in 1..Len(stagingFiles) :
                  /\ f > lastStagingFileID(warehouse)
                  /\ stagingFiles[f].SourceID = warehouse.Source
                  /\ stagingFiles[f].DestinationID = warehouse.Destination })

\* the row initUpload inserts for a slice of staging files
initUpload(warehouse, jsonUploadsList) ==
    [ SourceID |-> warehouse.Source,
      DestinationID |-> warehouse.Destination,
      StartStagingFileID |-> jsonUploadsList[1],
      EndStagingFileID |-> jsonUploadsList[Len(jsonUploadsList)],
      Status |-> WaitingState,
      Attempts |-> 0,
      FirstAttemptAt |-> NoTime ]

(***************************************************************************)
(* The gates.                                                              *)
(***************************************************************************)
\* strconv.ParseInt(s, 10, 64) with the error dropped: 0 for a non-number
ParseInt(s) == CASE s = "1" -> 1 [] s = "2" -> 2 [] OTHER -> 0

\* the test without the fallback to uploadFreqInS
uploadFrequencyExceededNoDefault(warehouse, syncFrequency) ==
    LET freqInS == ParseInt(syncFrequency) * 60
        lastExecTime == lastExecMap[connectionString(warehouse)]
    IN  lastExecTime # NoTime /\ now - lastExecTime < freqInS

\* TRUE when the pair started an upload run less than its frequency ago
uploadFrequencyExceeded(warehouse, syncFrequency) ==
    LET freqInS == IF syncFrequency # "" THEN ParseInt(syncFrequency) * 60
                   ELSE uploadFreqInS
        lastExecTime == lastExecMap[connectionString(warehouse)]
    IN  lastExecTime # NoTime /\ now - lastExecTime < freqInS

\* frequency gate of the fresh-upload path
canStartUpload(warehouse) ==
    ~uploadFrequencyExceeded(warehouse, ConfigSyncFrequency(warehouse.Destination))

\* retry gate of the pending-uploads path
canStartPendingUpload(upload) ==
    \/ upload.Attempts < minRetryAttempts
    \/ /\ upload.FirstAttemptAt # NoTime
       /\ now - upload.FirstAttemptAt < retryTimeWindow

(***************************************************************************)
(* setInterruptedDestinations: destination ids of the uploads found in     *)
(* exporting_data or exporting_data_failed at Setup.                       *)
(***************************************************************************)
setInterruptedDestinations(destType, table) ==
    IF destType \notin crashRecoverWarehouses THEN {}
    ELSE { table[i].DestinationID : i \in
             { j \in 1..Len(table) :
                 /\ DestinationDefinitionName(table[j].DestinationID) = destType
                 /\ table[j].Status \in
                      {ExportingDataState, ExportingDataFailedState} } }

(***************************************************************************)
(* The state after Start: no router yet, and an empty database, or one     *)
(* with staging files and no upload yet, or one left by a run that was     *)
(* interrupted while exporting the first upload of (S1, D1).               *)
(***************************************************************************)
InterruptedUpload ==
    [ SourceID |-> "S1", DestinationID |-> "D1",
      StartStagingFileID |-> 1, EndStagingFileID |-> 1,
      Status |-> ExportingDataState, Attempts |-> 0, FirstAttemptAt |-> 0 ]

\* staging files of (S1, D1) that came in before the restart and are in no
\* upload yet
PendingFiles ==
    [ f \in 1..(MaxFiles + 1) |-> [SourceID |-> "S1", DestinationID |-> "D1"] ]

Init ==
    /\ now \in {0, (MaxTicks - 1) * mainLoopSleep}
    /\ \/ /\ stagingFiles = << >>
          /\ uploads = << >>
       \/ /\ stagingFiles = PendingFiles
          /\ uploads = << >>
       \/ /\ stagingFiles = << [SourceID |-> "S1", DestinationID |-> "D1"] >>
          /\ uploads = << InterruptedUpload >>
    /\ inProgressMap = {}
    /\ lastExecMap = [ p \in Pairs |-> NoTime ]
    /\ inRecoveryMap = {}
    /\ config = << >>
    /\ feed \in { << SharedDestinationConfig >>, << TwoRouterConfig >>,
                  << SingleBindingConfig >>, ToggleFeed, GrowingFeed }
    /\ dstToWhRouter = {}
    /\ activeWorkerCount = 0
    /\ isEnabled = [ r \in Routers |-> FALSE ]
    /\ warehouses = [ r \in Routers |-> << >> ]
    /\ workerChannelMap = [ r \in Routers |-> << >> ]
    /\ workers = << >>
    /\ mlWarehouses = [ r \in Routers |-> << >> ]
    /\ mlIdx = [ r \in Routers |-> 0 ]
    /\ mlPc = [ r \in Routers |-> "range" ]
    /\ sharedLoopVar \in BOOLEAN
    /\ noOfWorkers \in {1, 2}
    /\ stagingFilesBatchSize \in {1, 2}
    /\ configSubscriberLock = "free"
    /\ subscriber = [ r \in Routers |->
                        [ ch |-> << >>, bindings |-> << >>, idx |-> 0 ] ]
    /\ blockedSend = [ r \in Routers |-> << >> ]

(***************************************************************************)
(* backendConfigSubscriber: rebuild wh.warehouses from the snapshot and    *)
(* ensure a worker (channel + goroutine) for every worker identifier.      *)
(***************************************************************************)
\* the bindings of a snapshot whose destination is of the router's destType
RECURSIVE destinationsOf(_, _, _)
destinationsOf(source, destinations, destType) ==
    IF destinations = << >> THEN << >>
    ELSE (IF DestinationDefinitionName(Head(destinations)) = destType
          THEN << Warehouse(source, Head(destinations)) >>
          ELSE << >>)
         \o destinationsOf(source, Tail(destinations), destType)

RECURSIVE warehousesOf(_, _)
warehousesOf(sources, destType) ==
    IF sources = << >> THEN << >>
    ELSE destinationsOf(Head(sources).ID, Head(sources).Destinations, destType)
         \o warehousesOf(Tail(sources), destType)

\* make(chan []*UploadJobT, 100) and the goroutine blocked on it
initWorker(identifier) ==
    [ name |-> identifier, q |-> << >>, pc |-> "recv", jobs |-> << >>, idx |-> 0 ]

\* a subscriber that spawns a worker for every binding of every snapshot
needsWorkerAlways(channelMap, workerName) == TRUE

\* TRUE when the subscriber has to spawn a worker for the identifier
needsWorker(channelMap, workerName) == workerName \notin DOMAIN channelMap

\* the channel map and the workers after the subscriber has seen the bindings
RECURSIVE ensureWorkers(_, _, _)
ensureWorkers(bindings, channelMap, ws) ==
    IF bindings = << >> THEN << channelMap, ws >>
    ELSE LET workerName == workerIdentifier(Head(bindings))
         IN  IF needsWorker(channelMap, workerName)
             THEN ensureWorkers(Tail(bindings),
                                (workerName :> (Len(ws) + 1)) @@ channelMap,
                                Append(ws, initWorker(workerName)))
             ELSE ensureWorkers(Tail(bindings), channelMap, ws)

backendConfigSubscriber(r) ==
    LET bindings == warehousesOf(config, r)
        ensured == ensureWorkers(bindings, workerChannelMap[r], workers)
    IN  /\ Len(ensured[2]) <= MaxWorkers
        /\ warehouses' = [warehouses EXCEPT ![r] = bindings]
        /\ workerChannelMap' = [workerChannelMap EXCEPT ![r] = ensured[1]]
        /\ workers' = ensured[2]
        /\ UNCHANGED << config, feed, dstToWhRouter, now, stagingFiles, uploads, inProgressMap, lastExecMap,
                        inRecoveryMap, activeWorkerCount, isEnabled,
                        mlWarehouses, mlIdx, mlPc, build, locks >>

(***************************************************************************)
(* monitorDestRouters handling one snapshot: Setup of a router for every   *)
(* warehouse destType seen for the first time, Enable of the ones seen     *)
(* again, Disable of the routers whose destType is not in the snapshot.    *)
(* The snapshot goes to the channel of every router's subscriber as well:  *)
(* to the ones that have subscribed, and as the current configuration to   *)
(* the one a router set up now subscribes with.                            *)
(***************************************************************************)
RECURSIVE destTypesOf(_)
destTypesOf(sources) ==
    IF sources = << >> THEN {}
    ELSE { DestinationDefinitionName(Head(sources).Destinations[i]) :
             i \in 1..Len(Head(sources).Destinations) }
         \cup destTypesOf(Tail(sources))

enabledDestinations(sources) == destTypesOf(sources)

\* a supervisor that enables and never disables
enableOnly(seen) ==
    [ r \in Routers |-> IF r \in seen THEN TRUE ELSE isEnabled[r] ]

\* wh.isEnabled of every router after the snapshot: Setup or Enable for the
\* destTypes seen, Disable for the routers of the others
enableDisable(seen) ==
    [ r \in Routers |->
        IF r \in seen THEN TRUE
        ELSE IF r \in dstToWhRouter THEN FALSE
        ELSE isEnabled[r] ]

monitorDestRouters ==
    /\ feed # << >>
    /\ config' = Head(feed)
    /\ feed' = Tail(feed)
    /\ LET seen == enabledDestinations(Head(feed)) \cap WarehouseDestinations
           started == seen \ dstToWhRouter
       IN
        /\ dstToWhRouter' = dstToWhRouter \cup seen
        /\ inRecoveryMap' = inRecoveryMap \cup
             UNION { setInterruptedDestinations(r, uploads) : r \in started }
        /\ isEnabled' = enableDisable(seen)
        /\ subscriber' =
             [ r \in Routers |->
                 IF r \in dstToWhRouter \cup seen
                 THEN [subscriber[r] EXCEPT !.ch = Append(@, Head(feed))]
                 ELSE subscriber[r] ]
        /\ UNCHANGED << now, stagingFiles, uploads, inProgressMap,
                        lastExecMap, activeWorkerCount, warehouses,
                        workerChannelMap, workers, mlWarehouses, mlIdx, mlPc,
                        build, configSubscriberLock, blockedSend >>

\* the (source, destination) pairs of a snapshot
RECURSIVE configPairs(_)
configPairs(sources) ==
    IF sources = << >> THEN {}
    ELSE { << Head(sources).ID, Head(sources).Destinations[i] >> :
             i \in 1..Len(Head(sources).Destinations) }
         \cup configPairs(Tail(sources))

\* the pairs of the snapshots published or yet to be published
feedPairs ==
    configPairs(config) \cup
    UNION { configPairs(feed[i]) : i \in 1..Len(feed) }

(***************************************************************************)
(* POST /v1/process: insert one staging file row.                          *)
(***************************************************************************)
processHandler(source, destination) ==
    /\ Len(stagingFiles) < MaxFiles
    /\ stagingFiles' = Append(stagingFiles,
                              [SourceID |-> source, DestinationID |-> destination])
    /\ UNCHANGED << config, feed, dstToWhRouter, now, uploads, inProgressMap, lastExecMap, inRecoveryMap,
                    activeWorkerCount, isEnabled, warehouses, workerChannelMap,
                    workers, mlWarehouses, mlIdx, mlPc, build, locks >>

(***************************************************************************)
(* The clock.                                                              *)
(***************************************************************************)
Tick ==
    /\ now < MaxTicks * mainLoopSleep
    /\ now' = now + mainLoopSleep
    /\ UNCHANGED << config, feed, dstToWhRouter, stagingFiles, uploads, inProgressMap, lastExecMap,
                    inRecoveryMap, activeWorkerCount, isEnabled, warehouses,
                    workerChannelMap, workers, mlWarehouses, mlIdx, mlPc,
                    build, locks >>

(***************************************************************************)
(* The router main loop.  One step of mainLoopTop is the head of a tick    *)
(* (the isEnabled check and the copy of wh.warehouses).  An iteration of   *)
(* the range loop over the copy is one step of mainLoopBinding, followed   *)
(* on the fresh path by one step of mainLoopStagingFiles: the query for    *)
(* the pending uploads and the query for the staging files are separate    *)
(* reads of the database, and a worker may run between them.               *)
(***************************************************************************)
\* a loop that skips a refused upload and goes on with the next
RECURSIVE admittedUploadsSkipping(_, _)
admittedUploadsSkipping(pendingUploads, warehouse) ==
    IF pendingUploads = << >> THEN << >>
    ELSE (IF canStartPendingUpload(uploads[Head(pendingUploads)])
          THEN << Head(pendingUploads) >>
          ELSE << >>)
         \o admittedUploadsSkipping(Tail(pendingUploads), warehouse)

\* the pending uploads the range loop appends before the retry gate refuses
RECURSIVE admittedUploads(_, _)
admittedUploads(pendingUploads, warehouse) ==
    IF pendingUploads = << >> THEN << >>
    ELSE IF ~canStartPendingUpload(uploads[Head(pendingUploads)])
         THEN << >>
         ELSE << Head(pendingUploads) >>
              \o admittedUploads(Tail(pendingUploads), warehouse)

\* the upload the range variable pendingUpload holds when the loop is left
lastIterated(pendingUploads, admitted) ==
    IF Len(admitted) < Len(pendingUploads)
    THEN pendingUploads[Len(admitted) + 1]
    ELSE pendingUploads[Len(pendingUploads)]

\* the upload `upload: &pendingUpload` of the i-th job points to once the
\* batch is built: its own, or the loop variable shared by all iterations
jobUpload(pendingUploads, admitted, i) ==
    IF sharedLoopVar THEN lastIterated(pendingUploads, admitted) ELSE admitted[i]

\* uploadJobs of the pending-uploads path
pendingUploadJobs(pendingUploads, warehouse) ==
    LET admitted == admittedUploads(pendingUploads, warehouse)
    IN  [ i \in 1..Len(admitted) |->
            [ upload |-> jobUpload(pendingUploads, admitted, i),
              stagingFiles |->
                  getStagingFiles(warehouse,
                                  uploads[admitted[i]].StartStagingFileID,
                                  uploads[admitted[i]].EndStagingFileID),
              warehouse |-> warehouse ] ]

\* a batching loop that makes full slices only and drops what is left over
RECURSIVE stagingFileBatchesFullOnly(_, _)
stagingFileBatchesFullOnly(stagingFilesList, count) ==
    IF count + stagingFilesBatchSize > Len(stagingFilesList)
    THEN << >>
    ELSE << SubSeq(stagingFilesList, count + 1, count + stagingFilesBatchSize) >>
         \o stagingFileBatchesFullOnly(stagingFilesList,
                                       count + stagingFilesBatchSize)

\* the slices stagingFilesList[count:lastIndex] of the batching loop
RECURSIVE stagingFileBatches(_, _)
stagingFileBatches(stagingFilesList, count) ==
    LET lastIndex == Min(count + stagingFilesBatchSize, Len(stagingFilesList))
    IN  << SubSeq(stagingFilesList, count + 1, lastIndex) >>
        \o (IF count + stagingFilesBatchSize >= Len(stagingFilesList)
            THEN << >>
            ELSE stagingFileBatches(stagingFilesList,
                                    count + stagingFilesBatchSize))

\* a channel that never takes a batch, as a nil channel does
canEnqueueNever(r, warehouse) == FALSE

\* the channel of the binding's worker can take one more batch
canEnqueue(r, warehouse) ==
    /\ workerIdentifier(warehouse) \in DOMAIN workerChannelMap[r]
    /\ Len(workers[workerChannelMap[r][workerIdentifier(warehouse)]].q)
         < Min(workerChanCap, MaxQueue)

\* a send that puts the batch in front of the ones waiting in the channel
enqueueAtHead(r, uploadJobs, warehouse) ==
    LET ch == workerChannelMap[r][workerIdentifier(warehouse)]
    IN  [workers EXCEPT ![ch].q = << uploadJobs >> \o @]

\* wh.workerChannelMap[workerName] <- uploads
enqueueUploadJobs(r, uploadJobs, warehouse) ==
    LET ch == workerChannelMap[r][workerIdentifier(warehouse)]
    IN  [workers EXCEPT ![ch].q = Append(@, uploadJobs)]

\* inProgressMap once the pending-uploads loop is left: the key set before
\* the loop is deleted again when the retry gate refused an upload
inProgressAfterPending(key, pendingUploads, uploadJobs) ==
    IF Len(uploadJobs) < Len(pendingUploads)
    THEN inProgressMap \ {key}
    ELSE inProgressMap \cup {key}

\* lines 505-539: there are pending uploads
pendingPath(r, warehouse, pendingUploads) ==
    LET key == connectionString(warehouse)
        uploadJobs == pendingUploadJobs(pendingUploads, warehouse)
    IN  /\ inProgressMap' =
             inProgressAfterPending(key, pendingUploads, uploadJobs)
        /\ IF Len(uploadJobs) = 0
           THEN workers' = workers
           ELSE /\ canEnqueue(r, warehouse)
                /\ workers' = enqueueUploadJobs(r, uploadJobs, warehouse)
        /\ UNCHANGED << uploads, lastExecMap >>

\* lastExecMap after setLastExec
setLastExec(warehouse) ==
    [lastExecMap EXCEPT ![connectionString(warehouse)] = now]

\* lines 540-547: no pending upload.  The frequency gate, and behind it
\* setLastExec
freshPath(r, warehouse) ==
    LET key == connectionString(warehouse)
    IN  IF ~canStartUpload(warehouse)
        THEN /\ inProgressMap' = inProgressMap \ {key}
             /\ UNCHANGED lastExecMap
        ELSE /\ inProgressMap' = inProgressMap \cup {key}
             /\ lastExecMap' = setLastExec(warehouse)

\* lines 548-589: the query for the staging files behind the last terminal
\* upload, an upload row and a job for every slice of them, and the send
stagingFilesPath(r, warehouse) ==
    LET key == connectionString(warehouse)
        stagingFilesList == getPendingStagingFiles(warehouse)
        batches == stagingFileBatches(stagingFilesList, 0)
        uploadJobs ==
            [ k \in 1..Len(batches) |->
                [ upload |-> Len(uploads) + k,
                  stagingFiles |-> batches[k],
                  warehouse |-> warehouse ] ]
    IN  IF Len(stagingFilesList) = 0
        THEN /\ inProgressMap' = inProgressMap \ {key}
             /\ UNCHANGED << uploads, workers >>
        ELSE /\ canEnqueue(r, warehouse)
             /\ inProgressMap' = inProgressMap
             /\ uploads' = uploads \o
                  [ k \in 1..Len(batches) |->
                      initUpload(warehouse, batches[k]) ]
             /\ workers' = enqueueUploadJobs(r, uploadJobs, warehouse)

\* a loop that never looks into inRecoveryMap
inRecoveryNever(warehouse) == FALSE

\* _, ok := inRecoveryMap[warehouse.Destination.ID]
inRecovery(warehouse) == warehouse.Destination \in inRecoveryMap

\* what whManager.CrashRecover may return: err == nil or not
crashRecoverOutcomes(warehouse) ==
    IF inRecovery(warehouse) THEN BOOLEAN ELSE {TRUE}

\* a loop that leaves the entry where it is after the recovery
deleteInRecoverySkipped(warehouse) == inRecoveryMap

\* delete(inRecoveryMap, warehouse.Destination.ID)
deleteInRecovery(warehouse) == inRecoveryMap \ {warehouse.Destination}

\* an error branch that leaves the entry set at the head of the iteration
inProgressKeptOnRecoverError(key) == inProgressMap \cup {key}

\* inProgressMap after CrashRecover returned an error: the entry set at the
\* head of the iteration is deleted again
inProgressAfterRecoverError(key) == inProgressMap \ {key}

\* a loop that does not look at the flag
notEnabledIgnored(r) == FALSE

\* if !wh.isEnabled: sleep and start the next tick
notEnabled(r) == ~isEnabled[r]

\* a main loop that copies wh.warehouses without the read lock
configSubscriberRLockSkipped == TRUE

\* configSubscriberLock.RLock() returns: no subscriber holds the lock
configSubscriberRLock == configSubscriberLock = "free"

mainLoopTop(r) ==
    /\ mlIdx[r] = 0
    /\ IF notEnabled(r) \/ Len(warehouses[r]) = 0
       THEN UNCHANGED << mlWarehouses, mlIdx >>
       ELSE /\ configSubscriberRLock
            /\ mlWarehouses' = [mlWarehouses EXCEPT ![r] = warehouses[r]]
            /\ mlIdx' = [mlIdx EXCEPT ![r] = 1]
    /\ UNCHANGED << config, feed, dstToWhRouter, now, stagingFiles, uploads, inProgressMap, lastExecMap,
                    inRecoveryMap, activeWorkerCount, isEnabled, warehouses,
                    workerChannelMap, workers, mlPc, build, locks >>

\* the range loop goes on to the next binding, or the tick ends
nextBinding(r) ==
    /\ mlPc' = [mlPc EXCEPT ![r] = "range"]
    /\ IF mlIdx[r] = Len(mlWarehouses[r])
       THEN /\ mlIdx' = [mlIdx EXCEPT ![r] = 0]
            /\ mlWarehouses' = [mlWarehouses EXCEPT ![r] = << >>]
       ELSE /\ mlIdx' = [mlIdx EXCEPT ![r] = @ + 1]
            /\ mlWarehouses' = mlWarehouses

\* the iteration stays at its binding, between the query for the pending
\* uploads and the query for the staging files
toStagingFiles(r) ==
    /\ mlPc' = [mlPc EXCEPT ![r] = "staging"]
    /\ UNCHANGED << mlIdx, mlWarehouses >>

\* lines 482-547 of one iteration: up to the send of the pending uploads
\* or, with nothing pending, up to setLastExec
mainLoopBinding(r) ==
    /\ mlIdx[r] >= 1
    /\ mlPc[r] = "range"
    /\ LET warehouse == mlWarehouses[r][mlIdx[r]]
           key == connectionString(warehouse)
       IN  IF key \in inProgressMap
           THEN /\ UNCHANGED << uploads, inProgressMap, lastExecMap,
                                inRecoveryMap, workers >>
                /\ nextBinding(r)
           ELSE \E recovered \in crashRecoverOutcomes(warehouse) :
                  IF ~recovered
                  THEN /\ inProgressMap' = inProgressAfterRecoverError(key)
                       /\ UNCHANGED << uploads, lastExecMap, inRecoveryMap,
                                       workers >>
                       /\ nextBinding(r)
                  ELSE /\ inRecoveryMap' =
                            IF inRecovery(warehouse)
                            THEN deleteInRecovery(warehouse)
                            ELSE inRecoveryMap
                       /\ IF getPendingUploads(warehouse) # << >>
                          THEN /\ pendingPath(r, warehouse,
                                              getPendingUploads(warehouse))
                               /\ nextBinding(r)
                          ELSE /\ UNCHANGED << uploads, workers >>
                               /\ freshPath(r, warehouse)
                               /\ IF canStartUpload(warehouse)
                                  THEN toStagingFiles(r)
                                  ELSE nextBinding(r)
    /\ UNCHANGED << config, feed, dstToWhRouter, now, stagingFiles, activeWorkerCount, isEnabled,
                    warehouses, workerChannelMap, build, locks >>

\* lines 548-590 of the iteration, a query of its own after the one for the
\* pending uploads
mainLoopStagingFiles(r) ==
    /\ mlIdx[r] >= 1
    /\ mlPc[r] = "staging"
    /\ stagingFilesPath(r, mlWarehouses[r][mlIdx[r]])
    /\ nextBinding(r)
    /\ UNCHANGED << config, feed, dstToWhRouter, now, stagingFiles, lastExecMap,
                    inRecoveryMap, activeWorkerCount, isEnabled, warehouses,
                    workerChannelMap, build, locks >>

(***************************************************************************)
(* The blocking operations, step by step.  The subscriber holds the        *)
(* process-wide configSubscriberLock from the reset of wh.warehouses to    *)
(* the end of the snapshot and takes wh.workerChannelMapLock for every     *)
(* binding; enqueueUploadJobs holds wh.workerChannelMapLock while its send *)
(* waits for room in the channel.  A critical section without a blocking   *)
(* operation inside is one step: Setup, Enable and Disable under the       *)
(* router's own configSubscriberLock, the reads of wh.isEnabled and of     *)
(* wh.warehouses, the map registries.                                      *)
(***************************************************************************)
\* a subscriber that appends to the list of the snapshot before
keptWarehouses(list) == list

\* wh.warehouses = []warehouseutils.WarehouseT{}
emptyWarehouses(list) == << >>

\* lines 199-210: receive a snapshot, take the lock, reset wh.warehouses and
\* append the first binding of the router's destType, if there is one
subscriberLock(r) ==
    /\ subscriber[r].idx = 0
    /\ subscriber[r].ch # << >>
    /\ configSubscriberLock = "free"
    /\ LET bindings == warehousesOf(Head(subscriber[r].ch), r)
       IN  IF bindings = << >>
           THEN /\ warehouses' = [warehouses EXCEPT ![r] = emptyWarehouses(@)]
                /\ subscriber' = [subscriber EXCEPT ![r].ch = Tail(@),
                                                    ![r].bindings = << >>]
                /\ UNCHANGED configSubscriberLock
           ELSE /\ warehouses' =
                     [warehouses EXCEPT
                        ![r] = Append(emptyWarehouses(@), bindings[1])]
                /\ subscriber' = [subscriber EXCEPT ![r].ch = Tail(@),
                                                    ![r].bindings = bindings,
                                                    ![r].idx = 1]
                /\ configSubscriberLock' = r
    /\ UNCHANGED << config, feed, dstToWhRouter, now, stagingFiles, uploads,
                    inProgressMap, lastExecMap, inRecoveryMap,
                    activeWorkerCount, isEnabled, workerChannelMap, workers,
                    mlWarehouses, mlIdx, mlPc, build, blockedSend >>

\* lines 212-221 for the binding appended last, then line 210 for the next
\* binding or, behind the last, the unlock of line 251
subscriberEnsure(r) ==
    /\ subscriber[r].idx >= 1
    /\ blockedSend[r] = << >>
    /\ LET bindings == subscriber[r].bindings
           idx == subscriber[r].idx
           ensured == ensureWorkers(<< bindings[idx] >>, workerChannelMap[r],
                                    workers)
       IN  /\ Len(ensured[2]) <= MaxWorkers
           /\ workerChannelMap' = [workerChannelMap EXCEPT ![r] = ensured[1]]
           /\ workers' = ensured[2]
           /\ IF idx < Len(bindings)
              THEN /\ warehouses' =
                        [warehouses EXCEPT ![r] = Append(@, bindings[idx + 1])]
                   /\ subscriber' = [subscriber EXCEPT ![r].idx = idx + 1]
                   /\ UNCHANGED configSubscriberLock
              ELSE /\ subscriber' = [subscriber EXCEPT ![r].idx = 0]
                   /\ configSubscriberLock' = "free"
                   /\ UNCHANGED warehouses
    /\ UNCHANGED << config, feed, dstToWhRouter, now, stagingFiles, uploads,
                    inProgressMap, lastExecMap, inRecoveryMap,
                    activeWorkerCount, isEnabled, mlWarehouses, mlIdx, mlPc,
                    build, blockedSend >>

\* the iteration of router r has its batch ready and the channel of the
\* binding's worker has no room (or is nil): enqueueUploadJobs takes
\* wh.workerChannelMapLock and waits in the send.  What the iteration does
\* before the send is done: the deletion of inProgress behind a refused
\* upload on the pending path, the new rows on the fresh path.
enqueueBlocks(r) ==
    /\ mlIdx[r] >= 1
    /\ mlPc[r] \in {"range", "staging"}
    /\ LET warehouse == mlWarehouses[r][mlIdx[r]]
           key == connectionString(warehouse)
           pendingUploads == getPendingUploads(warehouse)
           batches == stagingFileBatches(getPendingStagingFiles(warehouse), 0)
       IN  /\ ~canEnqueue(r, warehouse)
           /\ IF mlPc[r] = "staging"
              THEN /\ getPendingStagingFiles(warehouse) # << >>
                   /\ uploads' = uploads \o
                        [ k \in 1..Len(batches) |->
                            initUpload(warehouse, batches[k]) ]
                   /\ blockedSend' =
                        [blockedSend EXCEPT ![r] =
                           [ k \in 1..Len(batches) |->
                               [ upload |-> Len(uploads) + k,
                                 stagingFiles |-> batches[k],
                                 warehouse |-> warehouse ] ]]
                   /\ UNCHANGED << inProgressMap, inRecoveryMap >>
              ELSE /\ key \notin inProgressMap
                   /\ TRUE \in crashRecoverOutcomes(warehouse)
                   /\ pendingUploads # << >>
                   /\ pendingUploadJobs(pendingUploads, warehouse) # << >>
                   /\ inRecoveryMap' = inRecoveryMap \ {warehouse.Destination}
                   /\ inProgressMap' =
                        inProgressAfterPending(
                            key, pendingUploads,
                            pendingUploadJobs(pendingUploads, warehouse))
                   /\ blockedSend' =
                        [blockedSend EXCEPT ![r] =
                           pendingUploadJobs(pendingUploads, warehouse)]
                   /\ UNCHANGED uploads
    /\ mlPc' = [mlPc EXCEPT ![r] = "send"]
    /\ UNCHANGED << config, feed, dstToWhRouter, now, stagingFiles,
                    lastExecMap, activeWorkerCount, isEnabled, warehouses,
                    workerChannelMap, workers, mlWarehouses, mlIdx, build,
                    configSubscriberLock, subscriber >>

\* the worker has made room: the send of line 599 goes through, the lock is
\* released and the range loop goes on
enqueueUnblocks(r) ==
    /\ mlIdx[r] >= 1
    /\ mlPc[r] = "send"
    /\ canEnqueue(r, mlWarehouses[r][mlIdx[r]])
    /\ workers' = enqueueUploadJobs(r, blockedSend[r], mlWarehouses[r][mlIdx[r]])
    /\ blockedSend' = [blockedSend EXCEPT ![r] = << >>]
    /\ nextBinding(r)
    /\ UNCHANGED << config, feed, dstToWhRouter, now, stagingFiles, uploads,
                    inProgressMap, lastExecMap, inRecoveryMap,
                    activeWorkerCount, isEnabled, warehouses,
                    workerChannelMap, build, configSubscriberLock,
                    subscriber >>

(***************************************************************************)
(* The worker goroutine of initWorker and handleUploadJobs.  pc is         *)
(*   "recv"     blocked on uploads := <-workerChan                         *)
(*   "admit"    in the admission loop of handleUploadJobs                  *)
(*   "running"  admitted and inside job.run of jobs[idx]                   *)
(*   "release"  left the job loop, about to decrement activeWorkerCount    *)
(*   "clear"    handleUploadJobs returned, about to clear inProgress       *)
(***************************************************************************)
WorkerIDs == 1..Len(workers)

workerReceive(w) ==
    /\ workers[w].pc = "recv"
    /\ workers[w].q # << >>
    /\ workers' = [workers EXCEPT ![w].jobs = Head(workers[w].q),
                                  ![w].q = Tail(workers[w].q),
                                  ![w].idx = 1,
                                  ![w].pc = "admit"]
    /\ UNCHANGED << config, feed, dstToWhRouter, now, stagingFiles, uploads, inProgressMap, lastExecMap,
                    inRecoveryMap, activeWorkerCount, isEnabled, warehouses,
                    workerChannelMap, mlWarehouses, mlIdx, mlPc, build, locks >>

\* the admission test with > for >=
limitHitOffByOne(activeWorkers) == activeWorkers > noOfWorkers

\* the admission test: the limit is hit, sleep and check again
limitHit(activeWorkers) == activeWorkers >= noOfWorkers

\* the rows when job.run of upload id begins: the row leaves its state for
\* one of the run, and the first transition gives it its first timing
runStarted(table, id) ==
    [table EXCEPT ![id].Status = ExportingDataState,
                  ![id].FirstAttemptAt = IF @ = NoTime THEN now ELSE @]

workerAdmit(w) ==
    /\ workers[w].pc = "admit"
    /\ IF limitHit(activeWorkerCount)
       THEN UNCHANGED << activeWorkerCount, workers, uploads >>
       ELSE /\ activeWorkerCount' = activeWorkerCount + 1
            /\ workers' = [workers EXCEPT ![w].pc = "running"]
            /\ uploads' = runStarted(uploads, workers[w].jobs[1].upload)
    /\ UNCHANGED << config, feed, dstToWhRouter, now, stagingFiles, inProgressMap, lastExecMap,
                    inRecoveryMap, isEnabled, warehouses, workerChannelMap,
                    mlWarehouses, mlIdx, mlPc, build, locks >>

\* the row of job.upload when job.run returns: exported when err == nil,
\* else left failed in a non-terminal state with one more attempt, or aborted
uploadAfterRun(row, outcome) ==
    [row EXCEPT
       !.Status = CASE outcome = "ok" -> ExportedDataState
                    [] outcome = "fail" -> ExportingDataFailedState
                    [] OTHER -> AbortedState,
       !.Attempts = IF outcome = "fail" THEN @ + 1 ELSE @]

\* a job loop without the break
afterRunContinuing(worker, outcome) ==
    IF worker.idx = Len(worker.jobs)
    THEN [worker EXCEPT !.pc = "release"]
    ELSE [worker EXCEPT !.idx = @ + 1]

\* the job loop after job.run returned: break on an error, else the next job
afterRun(worker, outcome) ==
    IF outcome # "ok" \/ worker.idx = Len(worker.jobs)
    THEN [worker EXCEPT !.pc = "release"]
    ELSE [worker EXCEPT !.idx = @ + 1]

\* job.run of jobs[idx] returns; unless the loop is left, the next run begins
jobRunReturn(w, outcome) ==
    /\ workers[w].pc = "running"
    /\ LET id == workers[w].jobs[workers[w].idx].upload
           returned == [uploads EXCEPT ![id] = uploadAfterRun(@, outcome)]
       IN  /\ outcome = "fail" => uploads[id].Attempts < MaxAttempts
           /\ outcome = "abort" => uploads[id].Attempts >= MaxAttempts
           /\ workers' = [workers EXCEPT ![w] = afterRun(@, outcome)]
           /\ uploads' =
                IF workers'[w].pc = "running"
                THEN runStarted(returned, workers'[w].jobs[workers'[w].idx].upload)
                ELSE returned
    /\ UNCHANGED << config, feed, dstToWhRouter, now, stagingFiles, inProgressMap, lastExecMap,
                    inRecoveryMap, activeWorkerCount, isEnabled, warehouses,
                    workerChannelMap, mlWarehouses, mlIdx, mlPc, build, locks >>

\* a return of handleUploadJobs that leaves the counter as it is
decrementActiveWorkersSkipped(activeWorkers) == activeWorkers

\* activeWorkerCount-- under activeWorkerCountLock
decrementActiveWorkers(activeWorkers) == activeWorkers - 1

workerRelease(w) ==
    /\ workers[w].pc = "release"
    /\ activeWorkerCount' = decrementActiveWorkers(activeWorkerCount)
    /\ workers' = [workers EXCEPT ![w].pc = "clear"]
    /\ UNCHANGED << config, feed, dstToWhRouter, now, stagingFiles, uploads, inProgressMap, lastExecMap,
                    inRecoveryMap, isEnabled, warehouses, workerChannelMap,
                    mlWarehouses, mlIdx, mlPc, build, locks >>

\* setDestInProgress(uploads[0].warehouse, false), then back to the receive
workerClear(w) ==
    /\ workers[w].pc = "clear"
    /\ inProgressMap' =
         inProgressMap \ {connectionString(workers[w].jobs[1].warehouse)}
    /\ workers' = [workers EXCEPT ![w].pc = "recv",
                                  ![w].jobs = << >>,
                                  ![w].idx = 0]
    /\ UNCHANGED << config, feed, dstToWhRouter, now, stagingFiles, uploads, lastExecMap, inRecoveryMap,
                    activeWorkerCount, isEnabled, warehouses,
                    workerChannelMap, mlWarehouses, mlIdx, mlPc, build, locks >>

RunOutcomes == {"ok", "fail", "abort"}

Next ==
    \/ Tick
    \/ \E p \in feedPairs : processHandler(p[1], p[2])
    \/ monitorDestRouters
    \/ \E r \in dstToWhRouter : backendConfigSubscriber(r)
    \/ \E r \in dstToWhRouter : mainLoopTop(r)
    \/ \E r \in dstToWhRouter : mainLoopBinding(r)
    \/ \E r \in dstToWhRouter : mainLoopStagingFiles(r)
    \/ \E w \in WorkerIDs : workerReceive(w)
    \/ \E w \in WorkerIDs : workerAdmit(w)
    \/ \E w \in WorkerIDs, outcome \in RunOutcomes : jobRunReturn(w, outcome)
    \/ \E w \in WorkerIDs : workerRelease(w)
    \/ \E w \in WorkerIDs : workerClear(w)

Spec == Init /\ [][Next]_vars

\* two sources share destination D1 and its worker; the database is empty
InitShared ==
    /\ Init
    /\ now = 0
    /\ feed = << SharedDestinationConfig >>
    /\ stagingFiles = << >>
    /\ uploads = << >>
    /\ noOfWorkers = 2
SpecShared == InitShared /\ [][Next]_vars

\* one source feeds a destination of each router; one upload slot for the
\* two workers; the clock has one step left
InitTwo ==
    /\ Init
    /\ now = (MaxTicks - 1) * mainLoopSleep
    /\ feed = << TwoRouterConfig >>
    /\ stagingFiles = << >>
    /\ uploads = << >>
    /\ noOfWorkers = 1
    /\ stagingFilesBatchSize = 1
SpecTwo == InitTwo /\ [][Next]_vars

\* as InitShared, after a run that was interrupted while exporting
InitRecover ==
    /\ Init
    /\ now = 0
    /\ feed = << SharedDestinationConfig >>
    /\ uploads # << >>
    /\ noOfWorkers = 2
SpecRecover == InitRecover /\ [][Next]_vars

\* one binding whose destination the feed takes away and gives back; the
\* database is empty
InitFeed ==
    /\ Init
    /\ now = 0
    /\ feed = ToggleFeed
    /\ stagingFiles = << >>
    /\ uploads = << >>
    /\ noOfWorkers = 1
SpecFeed == InitFeed /\ [][Next]_vars

\* one binding; the database is empty or holds the staging files that came
\* in before the restart
InitChunk ==
    /\ Init
    /\ now = 0
    /\ feed = << SingleBindingConfig >>
    /\ uploads = << >>
    /\ noOfWorkers = 1
SpecChunk == InitChunk /\ [][Next]_vars

\* the goroutines are scheduled again and again, and job.run returns
WorkersFair ==
    /\ WF_vars(\E w \in WorkerIDs : workerReceive(w))
    /\ WF_vars(\E w \in WorkerIDs : workerAdmit(w))
    /\ WF_vars(\E w \in WorkerIDs, outcome \in RunOutcomes :
                  jobRunReturn(w, outcome))
    /\ WF_vars(\E w \in WorkerIDs : workerRelease(w))
    /\ WF_vars(\E w \in WorkerIDs : workerClear(w))
SpecFeedFair == SpecFeed /\ WorkersFair

\* the threads with the blocking operations step by step: the subscriber
\* takes its snapshots from its channel and holds the locks over several
\* steps, and a send that finds the channel full waits with the lock held
NextLocks ==
    \/ Tick
    \/ \E p \in feedPairs : processHandler(p[1], p[2])
    \/ monitorDestRouters
    \/ \E r \in dstToWhRouter : subscriberLock(r)
    \/ \E r \in dstToWhRouter : subscriberEnsure(r)
    \/ \E r \in dstToWhRouter : mainLoopTop(r)
    \/ \E r \in dstToWhRouter : mainLoopBinding(r)
    \/ \E r \in dstToWhRouter : mainLoopStagingFiles(r)
    \/ \E r \in dstToWhRouter : enqueueBlocks(r)
    \/ \E r \in dstToWhRouter : enqueueUnblocks(r)
    \/ \E w \in WorkerIDs : workerReceive(w)
    \/ \E w \in WorkerIDs : workerAdmit(w)
    \/ \E w \in WorkerIDs, outcome \in RunOutcomes : jobRunReturn(w, outcome)
    \/ \E w \in WorkerIDs : workerRelease(w)
    \/ \E w \in WorkerIDs : workerClear(w)

\* one binding that the feed takes away and gives back
SpecLocks == InitFeed /\ [][NextLocks]_vars

\* one upload slot for the workers of two routers, with fair goroutines
SpecTwoFair == SpecTwo /\ WorkersFair

\* every thread that can go on does so: the workers as in WorkersFair, the
\* send as soon as the channel has room, the subscriber as soon as
\* configSubscriberLock is free; a subscriber waiting for
\* wh.workerChannelMapLock gets it when it is released again and again
\* (sync.Mutex hands the lock to a waiter that has been waiting)
LocksFair ==
    /\ WorkersFair
    /\ \A r \in Routers : WF_vars(enqueueUnblocks(r))
    /\ \A r \in Routers : WF_vars(subscriberLock(r))
    /\ \A r \in Routers : SF_vars(subscriberEnsure(r))
SpecLocksFair == SpecLocks /\ LocksFair

\* a second source is bound to the destination while the router is at work;
\* the database is empty
InitGrowing ==
    /\ Init
    /\ now = 0
    /\ feed = GrowingFeed
    /\ stagingFiles = << >>
    /\ uploads = << >>
    /\ noOfWorkers = 1
SpecLocksGrowing == InitGrowing /\ [][NextLocks]_vars

(***************************************************************************)
(* What the claims speak about.                                            *)
(***************************************************************************)
\* the connection string of the pair a batch was built for
batchKey(jobs) == connectionString(jobs[1].warehouse)

RECURSIVE SeqSum(_)
SeqSum(s) == IF s = << >> THEN 0 ELSE Head(s) + SeqSum(Tail(s))

\* batches of the pair waiting in worker w's channel
queuedBatches(w, key) ==
    Cardinality({ i \in 1..Len(workers[w].q) : batchKey(workers[w].q[i]) = key })

\* 1 when worker w has received a batch of the pair and not yet cleared it
heldBatches(w, key) ==
    IF workers[w].pc # "recv" /\ batchKey(workers[w].jobs) = key THEN 1 ELSE 0

\* batches of the pair queued on or being executed by some worker
batchesInFlight(key) ==
    SeqSum([ w \in 1..Len(workers) |->
               queuedBatches(w, key) + heldBatches(w, key) ])

\* C1: for every (source, destination) pair at most one batch is queued on
\* or being executed by a worker.
C1_AtMostOneBatchPerPair ==
    \A key \in Pairs : batchesInFlight(key) <= 1

\* workers past the admission loop that have not yet decremented the counter
admittedWorkers ==
    { w \in 1..Len(workers) : workers[w].pc \in {"running", "release"} }

\* C2: the workers that passed admission and have not finished their batch
\* are exactly activeWorkerCount many, and that is between 0 and noOfWorkers.
C2_ActiveWorkerCount ==
    /\ Cardinality(admittedWorkers) = activeWorkerCount
    /\ activeWorkerCount >= 0
    /\ activeWorkerCount <= noOfWorkers

\* one worker holds the only slot while the other waits in the admission loop
C2_Witness ==
    /\ activeWorkerCount = noOfWorkers
    /\ \E w1, w2 \in 1..Len(workers) :
         /\ workers[w1].pc = "running"
         /\ workers[w2].pc = "admit"

\* the goroutines of a worker identity that are inside job.run
runningOf(ws, name) ==
    { w \in 1..Len(ws) : ws[w].name = name /\ ws[w].pc = "running" }

\* goroutine w enters job.run in this step
runBegins(w) ==
    /\ workers'[w].pc = "running"
    /\ \/ workers[w].pc = "admit"
       \/ workers[w].pc = "running" /\ workers'[w].idx # workers[w].idx

\* goroutine w takes a batch from its channel in this step
batchTaken(w) == workers'[w].jobs # workers[w].jobs /\ workers'[w].jobs # << >>

\* C3: worker serialisation.  A worker identity never has two job.run calls
\* active at once; a run begins only as the first job of the batch the worker
\* holds or when the run of the job before it in the batch has returned; and
\* a worker takes the next batch, the oldest of its channel, only after it is
\* done with the batch before.
C3_WorkerSerialisation ==
    [][ /\ \A w \in 1..Len(workers') :
             Cardinality(runningOf(workers', workers'[w].name)) <= 1
        /\ \A w \in 1..Len(workers) :
             /\ runBegins(w) =>
                  /\ workers'[w].jobs = workers[w].jobs
                  /\ runningOf(workers, workers[w].name) \subseteq {w}
                  /\ IF workers[w].pc = "admit"
                     THEN workers'[w].idx = 1
                     ELSE workers'[w].idx = workers[w].idx + 1
             /\ batchTaken(w) =>
                  /\ workers[w].pc = "recv"
                  /\ workers[w].jobs = << >>
                  /\ workers'[w].jobs = Head(workers[w].q)
                  /\ workers'[w].q = Tail(workers[w].q)
                  /\ workers'[w].pc = "admit" ]_vars

\* the shared worker of D1 runs a job of one source's batch while the batch
\* of the other source waits in its channel
C3_Witness ==
    \E w \in 1..Len(workers) :
        /\ workers[w].pc = "running"
        /\ workers[w].q # << >>
        /\ batchKey(workers[w].q[1]) # batchKey(workers[w].jobs)

\* the worker identity the uploads of a row's pair are handed to
workerOfUpload(row) ==
    workerIdentifier(Warehouse(row.SourceID, row.DestinationID))

\* the uploads of worker identity `name` of which a run has returned
startedUploads(name) ==
    { j \in 1..Len(uploads) :
        /\ workerOfUpload(uploads[j]) = name
        /\ uploads[j].FirstAttemptAt # NoTime }

\* C4 as stated: a worker never starts an upload whose id is lower than the
\* id of a different upload it started earlier.
C4_AscendingUploadIds ==
    [][ \A w \in 1..Len(workers) :
          runBegins(w) =>
            \A j \in startedUploads(workers[w].name) :
                j <= workers'[w].jobs[workers'[w].idx].upload ]_vars

\* the jobs of a batch are of one pair, in ascending order of the staging
\* files and of the uploads they carry
batchOrdered(jobs) ==
    \A i, j \in 1..Len(jobs) :
        i < j =>
          /\ jobs[i].warehouse = jobs[j].warehouse
          /\ jobs[i].upload <= jobs[j].upload
          /\ \A f \in 1..Len(jobs[i].stagingFiles),
                g \in 1..Len(jobs[j].stagingFiles) :
                 jobs[i].stagingFiles[f] < jobs[j].stagingFiles[g]

\* C4 amended: a worker executes in enqueue order.  A send appends the batch
\* behind the batches waiting in the channel, the worker takes the batch at
\* the head, runs its jobs from the first on, and within a batch the jobs are
\* in ascending order.  Ids need not ascend from one batch to the next.
C4_EnqueueOrder ==
    [][ \A w \in 1..Len(workers) :
          /\ workers'[w].q # workers[w].q =>
               \/ /\ workers[w].q # << >>
                  /\ workers'[w].q = Tail(workers[w].q)
                  /\ workers'[w].jobs = Head(workers[w].q)
               \/ /\ Len(workers'[w].q) = Len(workers[w].q) + 1
                  /\ SubSeq(workers'[w].q, 1, Len(workers[w].q)) = workers[w].q
          /\ \A b \in 1..Len(workers'[w].q) : batchOrdered(workers'[w].q[b])
          /\ batchOrdered(workers'[w].jobs)
          /\ runBegins(w) =>
               workers'[w].idx =
                 IF workers[w].pc = "admit" THEN 1 ELSE workers[w].idx + 1 ]_vars

\* the shared worker of D1 runs the retried upload of one source after a
\* run of the later-created upload of the other source has returned
C4_Witness ==
    \E w \in 1..Len(workers) :
        /\ workers[w].pc = "running"
        /\ \E j \in startedUploads(workers[w].name) :
             /\ j > workers[w].jobs[workers[w].idx].upload
             /\ uploads[j].SourceID # workers[w].jobs[workers[w].idx].warehouse.Source

\* the frequency of a pair in seconds
frequencyInS(destination) ==
    IF ConfigSyncFrequency(destination) = "" THEN uploadFreqInS
    ELSE ParseInt(ConfigSyncFrequency(destination)) * 60

\* the frequency gate of a pair is open in the current state
frequencyGateOpen(key) ==
    \/ lastExecMap[key] = NoTime
    \/ now - lastExecMap[key] >= frequencyInS(key[2])

\* the step is the first of an iteration of router r's range loop
bindingStep(r) ==
    /\ mlIdx[r] >= 1
    /\ mlPc[r] = "range"
    /\ mlIdx'[r] # mlIdx[r] \/ mlPc'[r] # mlPc[r]

\* the rows of a pair in a wh_uploads table
rowsOf(table, key) ==
    { i \in 1..Len(table) :
        table[i].SourceID = key[1] /\ table[i].DestinationID = key[2] }

\* C5: frequency gate.  A step that sets a pair's lastExec found the gate
\* open: no lastExec entry, or at least the pair's frequency has passed since.
\* An iteration goes on to the staging files only through the open gate, and
\* upload rows of a pair are inserted only by an iteration that did.  An
\* iteration that reaches the gate for a binding (not in progress, not kept
\* in recovery, nothing pending) and finds it closed inserts no row, enqueues
\* nothing, leaves lastExec as it is and leaves the pair not in progress.
C5_FrequencyGate ==
    [][ /\ \A key \in Pairs :
             lastExecMap'[key] # lastExecMap[key] => frequencyGateOpen(key)
        /\ \A key \in Pairs :
             rowsOf(uploads', key) # rowsOf(uploads, key) =>
               \E r \in Routers :
                   /\ mlPc[r] = "staging"
                   /\ connectionString(mlWarehouses[r][mlIdx[r]]) = key
        /\ \A r \in Routers :
             (mlPc[r] = "range" /\ mlPc'[r] = "staging") =>
               /\ frequencyGateOpen(connectionString(mlWarehouses[r][mlIdx[r]]))
               /\ lastExecMap'[connectionString(mlWarehouses[r][mlIdx[r]])] = now
        /\ \A r \in Routers :
             bindingStep(r) =>
               LET warehouse == mlWarehouses[r][mlIdx[r]]
                   key == connectionString(warehouse)
               IN  (/\ key \notin inProgressMap
                    /\ warehouse.Destination \notin inRecoveryMap'
                    /\ getPendingUploads(warehouse) = << >>
                    /\ ~frequencyGateOpen(key))
                     => /\ uploads' = uploads
                        /\ workers' = workers
                        /\ lastExecMap' = lastExecMap
                        /\ mlPc'[r] = "range"
                        /\ key \notin inProgressMap' ]_vars

\* a pair whose first upload ran at an earlier time got a second upload
\* through the gate at the current time
C5_Witness ==
    \E key \in Pairs :
        /\ lastExecMap[key] = now
        /\ \E i, j \in rowsOf(uploads, key) :
             /\ i < j
             /\ uploads[i].FirstAttemptAt # NoTime
             /\ uploads[i].FirstAttemptAt < now
             /\ uploads[j].FirstAttemptAt = NoTime

\* the retry gate as the specification states it
retryGateAdmits(row) ==
    \/ row.Attempts < minRetryAttempts
    \/ row.FirstAttemptAt # NoTime /\ now - row.FirstAttemptAt < retryTimeWindow

\* the batch this step sends to the worker of the binding, << >> if none
batchSent(r, warehouse) ==
    LET ch == workerChannelMap[r][workerIdentifier(warehouse)]
    IN  IF Len(workers'[ch].q) > Len(workers[ch].q)
        THEN workers'[ch].q[Len(workers'[ch].q)]
        ELSE << >>

\* a job of the batch carries the staging files of upload u
inBatch(jobs, warehouse, u) ==
    \E i \in 1..Len(jobs) :
        jobs[i].stagingFiles =
            getStagingFiles(warehouse, uploads[u].StartStagingFileID,
                            uploads[u].EndStagingFileID)

\* the step is an iteration of router r's range loop that goes through the
\* pending uploads of its binding
pendingPass(r) ==
    /\ bindingStep(r)
    /\ connectionString(mlWarehouses[r][mlIdx[r]]) \notin inProgressMap
    /\ mlWarehouses[r][mlIdx[r]].Destination \notin inRecoveryMap'
    /\ getPendingUploads(mlWarehouses[r][mlIdx[r]]) # << >>

\* C6 as stated: a pending upload is added to the batch if and only if the
\* retry gate admits it.
C6_RetryGateIff ==
    [][ \A r \in Routers :
          pendingPass(r) =>
            LET warehouse == mlWarehouses[r][mlIdx[r]]
                pendingUploads == getPendingUploads(warehouse)
            IN  \A k \in 1..Len(pendingUploads) :
                  inBatch(batchSent(r, warehouse), warehouse, pendingUploads[k])
                    <=> retryGateAdmits(uploads[pendingUploads[k]]) ]_vars

\* C6 amended: a pending upload is added to the batch if and only if the
\* retry gate admits it and every pending upload of the pair before it; the
\* pass stops at the first upload the gate refuses.
C6_RetryGatePrefix ==
    [][ \A r \in Routers :
          pendingPass(r) =>
            LET warehouse == mlWarehouses[r][mlIdx[r]]
                pendingUploads == getPendingUploads(warehouse)
            IN  \A k \in 1..Len(pendingUploads) :
                  inBatch(batchSent(r, warehouse), warehouse, pendingUploads[k])
                    <=> \A l \in 1..k :
                          retryGateAdmits(uploads[pendingUploads[l]]) ]_vars

\* the loop has just passed a binding whose first pending upload the gate
\* refuses and whose second it would admit: nothing was sent for the pair
C6_Witness ==
    \E r \in Routers :
        /\ mlIdx[r] = 2
        /\ LET warehouse == mlWarehouses[r][1]
               pendingUploads == getPendingUploads(warehouse)
           IN  /\ Len(pendingUploads) = 2
               /\ ~retryGateAdmits(uploads[pendingUploads[1]])
               /\ retryGateAdmits(uploads[pendingUploads[2]])
               /\ connectionString(warehouse) \notin inProgressMap
               /\ batchesInFlight(connectionString(warehouse)) = 0

\* a batch of the pair is appended to some worker channel in this step
batchEnqueued(key) ==
    \E w \in 1..Len(workers) :
        /\ Len(workers'[w].q) > Len(workers[w].q)
        /\ batchKey(workers'[w].q[Len(workers'[w].q)]) = key

\* C7: crash-recovery gate.  A step that inserts an upload row or enqueues a
\* batch for a pair leaves the pair's destination outside the recovery set:
\* it did so only behind a successful CrashRecover.  While a destination is
\* in the set no pair of it has a batch queued or running.  An
\* iteration that takes the destination out of the set goes on to the
\* pending uploads of its binding at once: the ones the retry gate admits are
\* enqueued by that same step.
C7_CrashRecoveryGate ==
    [][ /\ \A key \in Pairs :
             (rowsOf(uploads', key) # rowsOf(uploads, key) \/ batchEnqueued(key))
               => key[2] \notin inRecoveryMap'
        /\ \A key \in Pairs :
             key[2] \in inRecoveryMap' => batchesInFlight(key)' = 0
        /\ \A r \in Routers :
             (/\ bindingStep(r)
              /\ mlWarehouses[r][mlIdx[r]].Destination \in inRecoveryMap
              /\ mlWarehouses[r][mlIdx[r]].Destination \notin inRecoveryMap')
               => LET warehouse == mlWarehouses[r][mlIdx[r]]
                      pendingUploads == getPendingUploads(warehouse)
                  IN  /\ connectionString(warehouse) \notin inProgressMap
                      /\ \A k \in 1..Len(pendingUploads) :
                           (\A l \in 1..k :
                               retryGateAdmits(uploads[pendingUploads[l]]))
                             => inBatch(batchSent(r, warehouse), warehouse,
                                        pendingUploads[k]) ]_vars

\* the interrupted upload of (S1, D1) is with the worker and D1 has left the
\* recovery set
C7_Witness ==
    /\ "D1" \notin inRecoveryMap
    /\ uploads # << >>
    /\ uploads[1].Status = ExportingDataState
    /\ batchesInFlight(<< "S1", "D1" >>) = 1

\* C8: crash-recovery failure quarantine.  An iteration that reaches a
\* binding whose destination is in the recovery set and leaves it there (the
\* recovery failed) leaves the pair not in progress, inserts no row, enqueues
\* nothing and leaves lastExec as it is.  A destination leaves the set only
\* by an iteration over one of its bindings, and as long as it is in the set
\* none of its pairs is in progress, so every pass reaches the recovery again.
C8_RecoveryFailureQuarantine ==
    [][ /\ \A r \in Routers :
             (/\ bindingStep(r)
              /\ mlWarehouses[r][mlIdx[r]].Destination \in inRecoveryMap
              /\ mlWarehouses[r][mlIdx[r]].Destination \in inRecoveryMap')
               => /\ connectionString(mlWarehouses[r][mlIdx[r]])
                       \notin inProgressMap'
                  /\ inRecoveryMap' = inRecoveryMap
                  /\ uploads' = uploads
                  /\ workers' = workers
                  /\ lastExecMap' = lastExecMap
        /\ \A d \in inRecoveryMap \ inRecoveryMap' :
             \E r \in Routers :
                 bindingStep(r) /\ mlWarehouses[r][mlIdx[r]].Destination = d
        /\ \A key \in Pairs :
             key[2] \in inRecoveryMap => key \notin inProgressMap ]_vars

\* the loop has just passed the binding (S1, D1) with CrashRecover failing:
\* D1 is still in the recovery set, the pair is not in progress and the
\* interrupted upload is as it was
C8_Witness ==
    /\ "D1" \in inRecoveryMap
    /\ mlIdx["RS"] = 2
    /\ mlWarehouses["RS"][1].Destination = "D1"
    /\ << "S1", "D1" >> \notin inProgressMap
    /\ uploads # << >>
    /\ uploads[1].Status = ExportingDataState

filesOf(key) ==
    { f \in 1..Len(stagingFiles) :
        stagingFiles[f].SourceID = key[1] /\ stagingFiles[f].DestinationID = key[2] }

\* staging file f of the pair is in the range of a terminal upload of the pair
coveredByTerminal(key, f) ==
    \E i \in rowsOf(uploads, key) :
        /\ Terminal(uploads[i].Status)
        /\ uploads[i].StartStagingFileID <= f
        /\ f <= uploads[i].EndStagingFileID

\* C10: per pair the staging files covered by terminal uploads are a prefix
\* of the pair's staging files in id order: no uncovered file has a lower id
\* than a covered one.
C10_TerminalPrefix ==
    \A key \in Pairs :
        \A f, g \in filesOf(key) :
            (f < g /\ coveredByTerminal(key, g)) => coveredByTerminal(key, f)

\* the router of a pair's destination
routerOf(key) == DestinationDefinitionName(key[2])

\* worker w holds a batch of a router that is disabled
heldWhileDisabled(w) ==
    /\ w <= Len(workers)
    /\ workers[w].pc # "recv"
    /\ ~isEnabled[routerOf(batchKey(workers[w].jobs))]

\* worker w is blocked on its channel again
backAtChannel(w) == w <= Len(workers) /\ workers[w].pc = "recv"

\* C14: router disable.  A tick that starts while the router's flag is false
\* does not enter the range loop, and only inside the range loop of its
\* router is a pair set in progress, taken out of the recovery set, given an
\* upload row, a lastExec entry or a batch.  The worker that clears a batch
\* deletes the pair's inProgress entry, and a worker that holds a batch of a
\* disabled router goes through with it until it is back at its channel.
C14_RouterDisable ==
    /\ [][ /\ \A r \in Routers :
                 (mlIdx[r] = 0 /\ ~isEnabled[r]) => mlIdx'[r] = 0
            /\ \A key \in Pairs :
                 (\/ key \in inProgressMap' \ inProgressMap
                  \/ lastExecMap'[key] # lastExecMap[key]
                  \/ rowsOf(uploads', key) # rowsOf(uploads, key)
                  \/ batchEnqueued(key)
                  \/ key[2] \in inRecoveryMap \ inRecoveryMap')
                   => mlIdx[routerOf(key)] >= 1
            /\ \A w \in 1..Len(workers) :
                 (workers[w].pc = "clear" /\ workers'[w].pc = "recv")
                   => batchKey(workers[w].jobs) \notin inProgressMap' ]_vars
    /\ \A w \in 1..MaxWorkers :
         heldWhileDisabled(w) ~> backAtChannel(w)

\* the router of D1 is disabled and at the top of its tick while its worker is
\* inside job.run of a batch enqueued before
C14_Witness ==
    /\ "RS" \in dstToWhRouter
    /\ ~isEnabled["RS"]
    /\ mlIdx["RS"] = 0
    /\ \E w \in 1..Len(workers) :
         /\ workers[w].pc = "running"
         /\ batchKey(workers[w].jobs) = << "S1", "D1" >>

\* some destination of the snapshot is of the destType
snapshotHas(sources, destType) ==
    \E i \in 1..Len(sources) :
        \E j \in 1..Len(sources[i].Destinations) :
            DestinationDefinitionName(sources[i].Destinations[j]) = destType

\* C15: router supervisor.  A step in which the supervisor has processed a
\* snapshot ends with every router's flag true exactly when the snapshot has
\* a destination of its destType; the routers after it are the ones before
\* plus the warehouse destTypes the snapshot has for the first time; a router
\* that was there before keeps its worker channels, and the recovery set
\* grows only with a new router.  No other step touches flags or routers.
C15_RouterSupervisor ==
    [][ /\ feed' # feed =>
             /\ \A r \in dstToWhRouter' :
                  isEnabled'[r] <=> snapshotHas(Head(feed), r)
             /\ dstToWhRouter' = dstToWhRouter \cup
                  { r \in WarehouseDestinations : snapshotHas(Head(feed), r) }
             /\ \A r \in dstToWhRouter :
                  workerChannelMap'[r] = workerChannelMap[r]
             /\ dstToWhRouter' = dstToWhRouter => inRecoveryMap' = inRecoveryMap
        /\ (isEnabled' # isEnabled \/ dstToWhRouter' # dstToWhRouter)
             => feed' # feed
        /\ \A r \in Routers \ dstToWhRouter' : ~isEnabled'[r] ]_vars

\* the router of D1 was set up, got a worker, and is disabled since the
\* snapshot without D1
C15_Witness ==
    /\ "RS" \in dstToWhRouter
    /\ ~isEnabled["RS"]
    /\ workerChannelMap["RS"] # << >>
    /\ Len(feed) = MaxSnapshots - 2

\* job.run of worker w returns an error in this step: the row its job points
\* to is left failed or aborted
runFails(w) ==
    /\ workers[w].pc = "running"
    /\ workers'[w] # workers[w]
    /\ uploads'[workers[w].jobs[workers[w].idx].upload].Status
         \in {ExportingDataFailedState, AbortedState}

\* C11: per-batch stop and release.  When job.run returns an error the worker
\* leaves the job loop at that job: no run of a later job begins, no other
\* upload row and no other worker changes.  Out of the loop the only way on is
\* one decrement of activeWorkerCount, then the deletion of the pair's
\* inProgress entry, then the receive; activeWorkerCount goes down nowhere
\* else, so it goes down once per batch, failed or not.
C11_BatchStopAndRelease ==
    [][ \A w \in 1..Len(workers) :
          /\ runFails(w) =>
               /\ workers'[w] = [workers[w] EXCEPT !.pc = "release"]
               /\ \A j \in 1..Len(uploads) :
                    j # workers[w].jobs[workers[w].idx].upload
                      => uploads'[j] = uploads[j]
               /\ \A v \in 1..Len(workers) : v # w => workers'[v] = workers[v]
               /\ activeWorkerCount' = activeWorkerCount
               /\ inProgressMap' = inProgressMap
          /\ (workers[w].pc = "release" /\ workers'[w] # workers[w]) =>
               /\ workers'[w] = [workers[w] EXCEPT !.pc = "clear"]
               /\ activeWorkerCount' = activeWorkerCount - 1
               /\ inProgressMap' = inProgressMap
          /\ (workers[w].pc = "clear" /\ workers'[w].pc # "clear") =>
               /\ workers'[w].pc = "recv"
               /\ workers'[w].jobs = << >>
               /\ batchKey(workers[w].jobs) \notin inProgressMap'
               /\ activeWorkerCount' = activeWorkerCount
          /\ activeWorkerCount' < activeWorkerCount =>
               \E v \in 1..Len(workers) :
                   workers[v].pc = "release" /\ workers'[v].pc = "clear" ]_vars

\* a worker has left a batch of two jobs at the first, whose run failed: the
\* upload of the second job is waiting still, the slot is held still, and the
\* worker of the other router is at its channel
C11_Witness ==
    \E w, v \in 1..Len(workers) :
        /\ workers[w].pc = "release"
        /\ Len(workers[w].jobs) = 2
        /\ workers[w].idx = 1
        /\ uploads[workers[w].jobs[1].upload].Status = ExportingDataFailedState
        /\ uploads[workers[w].jobs[2].upload].Status = WaitingState
        /\ activeWorkerCount = 1
        /\ v # w
        /\ workers[v].pc = "recv"

\* the binding router r's iteration is at
currentBinding(r) == mlWarehouses[r][mlIdx[r]]

\* the next step of router r's iteration is a send to the worker of its
\* binding: admitted pending uploads, or staging files to upload
sendPending(r) ==
    /\ mlIdx[r] >= 1
    /\ IF mlPc[r] = "staging"
       THEN getPendingStagingFiles(currentBinding(r)) # << >>
       ELSE /\ connectionString(currentBinding(r)) \notin inProgressMap
            /\ admittedUploads(getPendingUploads(currentBinding(r)),
                               currentBinding(r)) # << >>

\* C12: the main loop never blocks on a worker.  Whenever the iteration of a
\* router is about to send a batch, the channel of the binding's worker has
\* room for it.
C12_EnqueueNeverBlocks ==
    \A r \in Routers : sendPending(r) => canEnqueue(r, currentBinding(r))

\* router r's iteration leaves the query for the staging files in this step
stagingFilesStep(r) == mlPc[r] = "staging" /\ mlPc'[r] = "range"

\* ceil(n / b)
CeilDiv(n, b) == (n + b - 1) \div b

\* C13: chunking on the fresh-upload path.  A pass that finds n >= 1 pending
\* staging files of its pair appends ceil(n/B) rows to wh_uploads, all
\* waiting; the i-th row starts at the first and ends at the last file of the
\* i-th slice of at most B files; the slices are consecutive and cover the
\* list; and the pass sends one batch, with one job per row in the order of
\* the rows, to the worker of the pair.  Rows are appended by such a pass only,
\* and the rows that were there stay as they are.
C13_Chunking ==
    [][ /\ \A r \in Routers :
             stagingFilesStep(r) =>
               LET warehouse == currentBinding(r)
                   files == getPendingStagingFiles(warehouse)
                   n == Len(files)
                   B == stagingFilesBatchSize
                   first == Len(uploads)
                   jobs == batchSent(r, warehouse)
               IN  IF n = 0
                   THEN uploads' = uploads /\ workers' = workers
                   ELSE /\ Len(uploads') = first + CeilDiv(n, B)
                        /\ SubSeq(uploads', 1, first) = uploads
                        /\ Len(jobs) = CeilDiv(n, B)
                        /\ \A i \in 1..CeilDiv(n, B) :
                             /\ uploads'[first + i].SourceID = warehouse.Source
                             /\ uploads'[first + i].DestinationID
                                  = warehouse.Destination
                             /\ uploads'[first + i].Status = WaitingState
                             /\ uploads'[first + i].StartStagingFileID
                                  = files[(i - 1) * B + 1]
                             /\ uploads'[first + i].EndStagingFileID
                                  = files[Min(i * B, n)]
                             /\ jobs[i].upload = first + i
                             /\ jobs[i].warehouse = warehouse
                             /\ jobs[i].stagingFiles
                                  = SubSeq(files, (i - 1) * B + 1, Min(i * B, n))
                        /\ \A w \in 1..Len(workers) :
                             Len(workers'[w].q) =
                               Len(workers[w].q) +
                               (IF w = workerChannelMap[r][workerIdentifier(warehouse)]
                                THEN 1 ELSE 0)
        /\ Len(uploads') # Len(uploads) =>
             \E r \in Routers : stagingFilesStep(r) ]_vars

\* three staging files and a batch size of two: the pass has made the uploads
\* [1,2] and [3,3] and sent them as one batch of two jobs
C13_Witness ==
    /\ stagingFilesBatchSize = 2
    /\ Len(stagingFiles) = 3
    /\ Len(uploads) = 2
    /\ uploads[1].StartStagingFileID = 1 /\ uploads[1].EndStagingFileID = 2
    /\ uploads[2].StartStagingFileID = 3 /\ uploads[2].EndStagingFileID = 3
    /\ \E w \in 1..Len(workers) :
         /\ Len(workers[w].q) = 1
         /\ Len(workers[w].q[1]) = 2
         /\ workers[w].q[1][1].upload = 1
         /\ workers[w].q[1][2].upload = 2

\* the ids getPendingStagingFiles returns for the pair
pendingFileIDs(key) ==
    LET files == getPendingStagingFiles(Warehouse(key[1], key[2]))
    IN  { files[i] : i \in 1..Len(files) }

\* a terminal upload of the pair ends at or after staging file f
endsAtOrAfter(key, f) ==
    \E i \in rowsOf(uploads, key) :
        Terminal(uploads[i].Status) /\ uploads[i].EndStagingFileID >= f

\* C16: ingress round trip.  Every staging file of a pair is in the result of
\* getPendingStagingFiles for the pair as long as no terminal upload of the
\* pair ends at or after it, whatever uploads the pair and other pairs have;
\* and POST /v1/process appends one row, of a pair, with an id above the end
\* of every upload there is, so that the next query for the pair returns it.
C16_IngressRoundTrip ==
    /\ [](\A key \in Pairs :
            \A f \in filesOf(key) :
                f \in pendingFileIDs(key) \/ endsAtOrAfter(key, f))
    /\ [][ Len(stagingFiles') > Len(stagingFiles) =>
             /\ Len(stagingFiles') = Len(stagingFiles) + 1
             /\ SubSeq(stagingFiles', 1, Len(stagingFiles)) = stagingFiles
             /\ \E key \in Pairs :
                  stagingFiles'[Len(stagingFiles')]
                    = [SourceID |-> key[1], DestinationID |-> key[2]]
             /\ uploads' = uploads
             /\ \A i \in 1..Len(uploads) :
                  uploads[i].EndStagingFileID < Len(stagingFiles') ]_vars

\* staging file 1 of (S1, D1) is in the result for its pair, in no upload,
\* while (S2, D1) has an exported upload that ends after it
C16_Witness ==
    /\ 1 \in filesOf(<< "S1", "D1" >>)
    /\ 1 \in pendingFileIDs(<< "S1", "D1" >>)
    /\ rowsOf(uploads, << "S1", "D1" >>) = {}
    /\ \E i \in rowsOf(uploads, << "S2", "D1" >>) :
         /\ uploads[i].Status = ExportedDataState
         /\ uploads[i].EndStagingFileID = 2

\* C17: whenever a batch of a pair is queued on or held by a worker, the pair
\* is in inProgressMap: the main loop deletes the entry only in a pass that
\* sends nothing for the pair, and the worker only when it is done with the
\* batch.
C17_InProgressWhileInFlight ==
    \A key \in Pairs : batchesInFlight(key) >= 1 => key \in inProgressMap

\* C18: lastExec of a pair is the time the pair last started an upload run.
\* The entry is written only by an iteration over the pair that is on the
\* fresh-upload path, with the current time and before a row is inserted; and
\* the iteration that wrote it goes on to insert at least one row and to send
\* a batch for the pair.
C18_LastExecIsRunStart ==
    [][ /\ \A key \in Pairs :
             lastExecMap'[key] # lastExecMap[key] =>
               /\ lastExecMap'[key] = now
               /\ uploads' = uploads
               /\ \E r \in Routers :
                    /\ mlIdx[r] >= 1
                    /\ mlPc[r] = "range"
                    /\ mlPc'[r] = "staging"
                    /\ connectionString(currentBinding(r)) = key
        /\ \A r \in Routers :
             stagingFilesStep(r) =>
               /\ Len(uploads') > Len(uploads)
               /\ batchEnqueued(connectionString(currentBinding(r))) ]_vars

C20_PendingBatchIsPrefix ==
    [][ \A r \in Routers :
          pendingPass(r) =>
            LET warehouse == currentBinding(r)
                pendingUploads == getPendingUploads(warehouse)
                jobs == batchSent(r, warehouse)
            IN  /\ Len(jobs) <= Len(pendingUploads)
                /\ \A i \in 1..Len(jobs) :
                     /\ jobs[i].upload = pendingUploads[i]
                     /\ retryGateAdmits(uploads[pendingUploads[i]])
                /\ Len(jobs) < Len(pendingUploads) =>
                     ~retryGateAdmits(uploads[pendingUploads[Len(jobs) + 1]])
                /\ ~retryGateAdmits(uploads[pendingUploads[1]]) =>
                     /\ workers' = workers
                     /\ connectionString(warehouse) \notin inProgressMap' ]_vars

\* C21: on the pending-uploads path the batch has one job per admitted
\* pending upload, the i-th job points to the i-th admitted upload and carries
\* the staging files of that upload's range, and no two jobs of the batch
\* point to the same upload row.
C21_JobOwnsItsUpload ==
    [][ \A r \in Routers :
          pendingPass(r) =>
            LET warehouse == currentBinding(r)
                admitted == admittedUploads(getPendingUploads(warehouse),
                                            warehouse)
                jobs == batchSent(r, warehouse)
            IN  /\ Len(jobs) = Len(admitted)
                /\ \A i \in 1..Len(jobs) :
                     /\ jobs[i].upload = admitted[i]
                     /\ jobs[i].warehouse = warehouse
                     /\ jobs[i].stagingFiles =
                          getStagingFiles(warehouse,
                                          uploads[jobs[i].upload].StartStagingFileID,
                                          uploads[jobs[i].upload].EndStagingFileID)
                /\ \A i, j \in 1..Len(jobs) :
                     i # j => jobs[i].upload # jobs[j].upload ]_vars

\* the worker identities of a list of bindings
identitiesOf(bindings) ==
    { workerIdentifier(bindings[i]) : i \in 1..Len(bindings) }

\* the channels of router r's map
channelsOf(r) ==
    { workerChannelMap[r][name] : name \in DOMAIN workerChannelMap[r] }

\* C22: worker registry.  Every identity in a router's channel map has one
\* channel, read by one goroutine of that identity; no channel is in two maps
\* or under two identities and every goroutine belongs to one entry.  An entry
\* once made is never removed or replaced and no goroutine goes away.  Every
\* identity of a snapshot the subscriber is done with is in the map, and so
\* is the identity of every binding the main loop has read or is sending for.
C22_WorkerRegistry ==
    /\ [](/\ \A r \in Routers :
               \A name \in DOMAIN workerChannelMap[r] :
                   /\ workerChannelMap[r][name] \in 1..Len(workers)
                   /\ workers[workerChannelMap[r][name]].name = name
                   /\ \A other \in DOMAIN workerChannelMap[r] :
                        workerChannelMap[r][other] = workerChannelMap[r][name]
                          => other = name
          /\ \A r, q \in Routers :
               r # q => channelsOf(r) \cap channelsOf(q) = {}
          /\ UNION { channelsOf(r) : r \in Routers } = 1..Len(workers)
          /\ \A r \in Routers :
               /\ subscriber[r].idx = 0 =>
                    identitiesOf(warehouses[r]) \subseteq DOMAIN workerChannelMap[r]
               /\ identitiesOf(mlWarehouses[r]) \subseteq DOMAIN workerChannelMap[r])
    /\ [][ /\ \A r \in Routers :
                \A name \in DOMAIN workerChannelMap[r] :
                    /\ name \in DOMAIN workerChannelMap'[r]
                    /\ workerChannelMap'[r][name] = workerChannelMap[r][name]
           /\ Len(workers') >= Len(workers)
           /\ \A w \in 1..Len(workers) : workers'[w].name = workers[w].name
           /\ \A r \in Routers :
                (mlPc[r] # "send" /\ mlPc'[r] = "send") =>
                    workerIdentifier(mlWarehouses[r][mlIdx[r]])
                        \in DOMAIN workerChannelMap[r] ]_vars

\* the subscriber is done with the last snapshot of a feed that took the
\* binding away and gave it back: there is one worker still, and it is inside
\* job.run of a batch the main loop sent it
C22_Witness ==
    /\ feed = << >>
    /\ subscriber["RS"].ch = << >>
    /\ subscriber["RS"].idx = 0
    /\ Len(subscriber["RS"].bindings) = 1
    /\ Len(workers) = 1
    /\ DOMAIN workerChannelMap["RS"] = { << "D1", "ns" >> }
    /\ workers[1].pc = "running"
    /\ mlIdx["RS"] >= 1

\* an upload of the destination was found in exporting_data or
\* exporting_data_failed
interrupted(table, d) ==
    \E i \in 1..Len(table) :
        /\ table[i].DestinationID = d
        /\ table[i].Status \in {ExportingDataState, ExportingDataFailedState}

\* C23: the recovery set only shrinks after router setup.  A destination
\* enters the set only in the step that sets up the router of its destType,
\* which is crash-recoverable, and only with an upload in exporting_data or
\* exporting_data_failed; it leaves the set only in an iteration over one of
\* its bindings that is not skipped, and that iteration goes on to schedule
\* the binding; an iteration that goes on for a destination in the set takes
\* it out.  Once the router is there nothing enters the set, so a destination
\* leaves it at most once, and the iterations over the other bindings of the
\* destination are not held up by a recovery: with an admitted pending
\* upload they send, with nothing pending and the frequency gate open they
\* go on to the staging files.
C23_RecoverySetShrinks ==
    [][ /\ \A d \in inRecoveryMap' \ inRecoveryMap :
             /\ feed' # feed
             /\ routerOf(<< "", d >>) \in crashRecoverWarehouses
             /\ routerOf(<< "", d >>) \in dstToWhRouter' \ dstToWhRouter
             /\ interrupted(uploads, d)
        /\ \A d \in inRecoveryMap \ inRecoveryMap' :
             \E r \in Routers :
                 /\ bindingStep(r)
                 /\ currentBinding(r).Destination = d
                 /\ connectionString(currentBinding(r)) \notin inProgressMap
                 /\ \/ batchEnqueued(connectionString(currentBinding(r)))
                    \/ mlPc'[r] = "staging"
                    \/ connectionString(currentBinding(r)) \notin inProgressMap'
        /\ \A r \in Routers :
             (/\ bindingStep(r)
              /\ \/ batchEnqueued(connectionString(currentBinding(r)))
                 \/ mlPc'[r] = "staging")
               => currentBinding(r).Destination \notin inRecoveryMap'
        /\ \A r \in Routers :
             (/\ bindingStep(r)
              /\ currentBinding(r).Destination \notin inRecoveryMap
              /\ connectionString(currentBinding(r)) \notin inProgressMap)
               => LET warehouse == currentBinding(r)
                      key == connectionString(warehouse)
                      pendingUploads == getPendingUploads(warehouse)
                  IN  /\ (/\ pendingUploads # << >>
                          /\ retryGateAdmits(uploads[pendingUploads[1]]))
                           => batchEnqueued(key)
                      /\ (pendingUploads = << >> /\ frequencyGateOpen(key))
                           => mlPc'[r] = "staging" ]_vars

\* D1 has left the recovery set, and both of its bindings have a batch with
\* a worker: the interrupted upload of (S1, D1) and a new upload of (S2, D1)
C23_Witness ==
    /\ "D1" \notin inRecoveryMap
    /\ uploads # << >>
    /\ uploads[1].FirstAttemptAt = 0
    /\ batchesInFlight(<< "S1", "D1" >>) = 1
    /\ batchesInFlight(<< "S2", "D1" >>) = 1

\* the (source, destination) pairs of a list of bindings
pairsOf(bindings) ==
    { connectionString(bindings[i]) : i \in 1..Len(bindings) }

\* the subscriber of router r takes a snapshot from its channel in this step
snapshotTaken(r) == Len(subscriber'[r].ch) < Len(subscriber[r].ch)

\* C24: each snapshot fully replaces a router's binding list.  The bindings
\* the subscriber makes of a snapshot are the (source, destination) entries of
\* the snapshot whose destination is of the router's destType, each once, and
\* whenever the subscriber is not in a rebuild wh.warehouses is the list of the
\* snapshot it took last.  The main loop copies the list only then, so its
\* copy is the whole list of that snapshot, and a pair is set in progress,
\* given an upload row or sent a batch only as the binding of that copy the
\* range loop is at.
C24_SnapshotReplacesBindings ==
    /\ [](\A r \in Routers :
            subscriber[r].idx = 0 => warehouses[r] = subscriber[r].bindings)
    /\ [][ /\ \A r \in Routers :
                snapshotTaken(r) =>
                  LET snapshot == Head(subscriber[r].ch)
                      bindings == subscriber'[r].bindings
                  IN  /\ pairsOf(bindings) =
                           { p \in configPairs(snapshot) : routerOf(p) = r }
                      /\ Len(bindings) = Cardinality(pairsOf(bindings))
                      /\ \A i \in 1..Len(bindings) :
                           bindings[i] = Warehouse(bindings[i].Source,
                                                   bindings[i].Destination)
           /\ \A r \in Routers :
                (mlWarehouses'[r] # mlWarehouses[r] /\ mlWarehouses'[r] # << >>)
                  => /\ subscriber[r].idx = 0
                     /\ mlIdx[r] = 0
                     /\ mlWarehouses'[r] = subscriber[r].bindings
           /\ \A key \in Pairs :
                (\/ key \in inProgressMap' \ inProgressMap
                 \/ rowsOf(uploads', key) # rowsOf(uploads, key)
                 \/ batchEnqueued(key))
                  => /\ mlIdx[routerOf(key)] >= 1
                     /\ connectionString(currentBinding(routerOf(key))) = key
         ]_vars

\* the subscriber is done with the snapshot that binds S2 to D1, and a tick
\* that began afterwards has come to the new binding and made an upload for it
C24_Witness ==
    /\ feed = << >>
    /\ subscriber["RS"].ch = << >>
    /\ subscriber["RS"].idx = 0
    /\ Len(warehouses["RS"]) = 2
    /\ mlWarehouses["RS"] = warehouses["RS"]
    /\ mlIdx["RS"] = 2
    /\ mlPc["RS"] = "range"
    /\ rowsOf(uploads, << "S2", "D1" >>) # {}
    /\ << "S2", "D1" >> \in inProgressMap

\* upload u of the table was left failed by a run and is not terminal
failedUpload(table, u) ==
    /\ table[u].Status = ExportingDataFailedState
    /\ table[u].Attempts >= 1

\* C26: retry after failure.  An iteration that reaches the binding of a pair
\* that is not in progress (the worker has released it) and is not held back
\* by a recovery finds every failed, non-terminal upload of the pair among the
\* pending uploads, and when the retry gate admits the upload and the pending
\* uploads before it, the batch the iteration sends has a job for that upload;
\* the iteration does not turn to the staging files of the pair.
C26_RetryAfterFailure ==
    [][ \A r \in Routers :
          (/\ bindingStep(r)
           /\ connectionString(currentBinding(r)) \notin inProgressMap
           /\ currentBinding(r).Destination \notin inRecoveryMap')
            => LET warehouse == currentBinding(r)
                   pendingUploads == getPendingUploads(warehouse)
                   jobs == batchSent(r, warehouse)
               IN  \A u \in rowsOf(uploads, connectionString(warehouse)) :
                     failedUpload(uploads, u) =>
                       /\ \E k \in 1..Len(pendingUploads) : pendingUploads[k] = u
                       /\ mlPc'[r] # "staging"
                       /\ uploads' = uploads
                       /\ (\A k \in 1..Len(pendingUploads) :
                              pendingUploads[k] <= u =>
                                retryGateAdmits(uploads[pendingUploads[k]]))
                            => \E i \in 1..Len(jobs) : jobs[i].upload = u ]_vars

\* goroutine w is not waiting for anything but its own next step: it has a
\* batch to take from its channel, is inside a job.run that returns, or is
\* about to release; in the admission loop it goes on when a slot is free
workerCanStep(w) ==
    CASE workers[w].pc = "recv" -> workers[w].q # << >>
      [] workers[w].pc = "admit" -> ~limitHit(activeWorkerCount)
      [] OTHER -> TRUE

\* the main loop of router r waits in the send of enqueueUploadJobs
sendWaits(r) == mlPc[r] = "send"

\* the subscriber of router r waits for wh.workerChannelMapLock
ensureWaits(r) == subscriber[r].idx >= 1 /\ blockedSend[r] # << >>

\* the subscriber of router r has a snapshot to work on or is working on one
subscriberBusy(r) == subscriber[r].ch # << >> \/ subscriber[r].idx >= 1

workerAt(w, pc) == w <= Len(workers) /\ workers[w].pc = pc

\* goroutine w exists and has a batch waiting in its channel
batchWaits(w) == w <= Len(workers) /\ workers[w].q # << >>

====
